---- MODULE Spec2Model ----
(***************************************************************************)
(* blt-gobbler: the BLT parser (src/parser.js, parse) and the page's input *)
(* handler (onInput) that feeds the textarea to it.                        *)
(*                                                                         *)
(* A JavaScript string is a sequence of one-character strings.  A number   *)
(* is an integer, or NaN (the one value of Number() that is no integer).   *)
(* A property whose value is undefined is a field the record lacks.        *)
(***************************************************************************)
EXTENDS Integers, Sequences, FiniteSets, TLC

VARIABLES value, results, error, result, pc

vars == <<value, results, error, result, pc>>

-----------------------------------------------------------------------------
(* Characters *)

LF == "\n"
CR == "\r"
SP == " "
TAB == "\t"
QUOTE == "\""
HASH == "#"
DASH == "-"
EQ == "="

Digits == {"0", "1", "2", "3", "4", "5", "6", "7", "8", "9"}

\* What \s and String.prototype.trim treat as white space.
WhiteSpace == {SP, TAB, LF, CR}

\* What the regular expression's . does not match.
LineTerminators == {LF, CR}

NaN == -1000000

-----------------------------------------------------------------------------
(* String and array primitives of the language, as parse uses them *)

Min(a, b) == IF a < b THEN a ELSE b
Max(a, b) == IF a > b THEN a ELSE b

\* Array.prototype.slice(start, end), 0-based, negative indexes from the end.
slice(s, start, end) ==
  LET n == Len(s)
      from == IF start < 0 THEN Max(n + start, 0) ELSE Min(start, n)
      to == IF end < 0 THEN Max(n + end, 0) ELSE Min(end, n)
  IN IF to <= from THEN <<>> ELSE SubSeq(s, from + 1, to)

\* Array.prototype.findIndex(x => x === target): 0-based, -1 when absent.
findIndex(s, target) ==
  LET hits == {i \in 1..Len(s) : s[i] = target}
  IN IF hits = {} THEN -1
     ELSE (CHOOSE i \in hits : \A j \in hits : i <= j) - 1

\* String.prototype.split(sep) for a one-character separator.
RECURSIVE split(_, _)
split(s, sep) ==
  LET hits == {i \in 1..Len(s) : s[i] = sep}
  IN IF hits = {} THEN <<s>>
     ELSE LET i == CHOOSE k \in hits : \A j \in hits : k <= j
          IN <<SubSeq(s, 1, i - 1)>> \o split(SubSeq(s, i + 1, Len(s)), sep)

\* String.prototype.trim
trim(s) ==
  LET keep == {i \in 1..Len(s) : s[i] \notin WhiteSpace}
  IN IF keep = {} THEN <<>>
     ELSE SubSeq(s, CHOOSE i \in keep : \A j \in keep : i <= j,
                    CHOOSE i \in keep : \A j \in keep : i >= j)

\* line.replace(/#.*$/, ""): the leftmost '#' from which no line terminator
\* follows up to the end of the string starts the match; . stops at a line
\* terminator and $ (no m flag) is the end of the string.
stripComment(line) ==
  LET starts == {i \in 1..Len(line) :
                   /\ line[i] = HASH
                   /\ \A j \in (i + 1)..Len(line) : line[j] \notin LineTerminators}
  IN IF starts = {} THEN line
     ELSE SubSeq(line, 1, (CHOOSE i \in starts : \A j \in starts : i <= j) - 1)

\* line.replace(/"/g, "")
stripQuotes(line) == SelectSeq(line, LAMBDA c : c # QUOTE)

\* chars.replace("-", ""): the first '-' only.
stripFirstDash(s) ==
  LET hits == {i \in 1..Len(s) : s[i] = DASH}
  IN IF hits = {} THEN s
     ELSE LET i == CHOOSE k \in hits : \A j \in hits : k <= j
          IN SubSeq(s, 1, i - 1) \o SubSeq(s, i + 1, Len(s))

DigitValue(c) ==
  CASE c = "0" -> 0 [] c = "1" -> 1 [] c = "2" -> 2 [] c = "3" -> 3
    [] c = "4" -> 4 [] c = "5" -> 5 [] c = "6" -> 6 [] c = "7" -> 7
    [] c = "8" -> 8 [] c = "9" -> 9

RECURSIVE DecimalValue(_)
DecimalValue(ds) ==
  IF ds = <<>> THEN 0
  ELSE 10 * DecimalValue(SubSeq(ds, 1, Len(ds) - 1)) + DigitValue(ds[Len(ds)])

AllDigits(s) == Len(s) > 0 /\ \A i \in 1..Len(s) : s[i] \in Digits

\* Number(chars) on the strings the alphabet can spell: white space is
\* trimmed, the empty string is 0, an optionally signed run of digits is its
\* value (-0 is 0), anything else is NaN.
Number(chars) ==
  LET t == trim(chars)
  IN IF t = <<>> THEN 0
     ELSE IF AllDigits(t) THEN DecimalValue(t)
     ELSE IF t[1] \in {DASH, "+"} /\ AllDigits(Tail(t))
       THEN (IF t[1] = DASH THEN 0 - DecimalValue(Tail(t)) ELSE DecimalValue(Tail(t)))
     ELSE NaN

-----------------------------------------------------------------------------
(* parse *)

cleanLine(line) == trim(stripQuotes(stripComment(line)))

cleanedLines(bltText) ==
  LET rawLines == split(bltText, LF)
  IN SelectSeq([i \in 1..Len(rawLines) |-> cleanLine(rawLines[i])],
               LAMBDA line : Len(line) > 0)

\* /^(-\d+\s*)+$/ as the automaton of its language.
withdrawalStep(st, c) ==
  CASE st = "start" -> (IF c = DASH THEN "dash" ELSE "fail")
    [] st = "dash" -> (IF c \in Digits THEN "digits" ELSE "fail")
    [] st = "digits" -> (IF c \in Digits THEN "digits"
                         ELSE IF c \in WhiteSpace THEN "space"
                         ELSE IF c = DASH THEN "dash" ELSE "fail")
    [] st = "space" -> (IF c \in WhiteSpace THEN "space"
                        ELSE IF c = DASH THEN "dash" ELSE "fail")
    [] OTHER -> "fail"

RECURSIVE withdrawalRun(_, _)
withdrawalRun(st, s) ==
  IF s = <<>> THEN st ELSE withdrawalRun(withdrawalStep(st, Head(s)), Tail(s))

\* /^(-\d+\s*)+$/.test(theOtherLines[0]); an absent line is tested as the
\* text "undefined", which the pattern rejects.
isWithdrawalLine(lines) ==
  Len(lines) > 0 /\ withdrawalRun("start", lines[1]) \in {"digits", "space"}

withdrawnCandidates(lines) ==
  IF isWithdrawalLine(lines)
  THEN LET kept == SelectSeq(split(lines[1], SP), LAMBDA chars : Len(trim(chars)) > 0)
       IN [i \in 1..Len(kept) |-> Number(stripFirstDash(trim(kept[i])))]
  ELSE <<>>

\* theOtherLines after the conditional shift().
theOtherLines(lines) ==
  IF isWithdrawalLine(Tail(lines)) THEN Tail(Tail(lines)) ELSE Tail(lines)

\* Variant: the index of the last marker line instead of the first.
indexOfEndOfBallots_last(others) ==
  LET hits == {i \in 1..Len(others) : others[i] = <<"0">>}
  IN IF hits = {} THEN -1
     ELSE (CHOOSE i \in hits : \A j \in hits : i >= j) - 1

indexOfEndOfBallots(others) == findIndex(others, <<"0">>)

ballotLines(others) == slice(others, 0, indexOfEndOfBallots(others))

\* Variant: the slice runs to the end and takes the title line as a name.
candidateLines_toEnd(others) ==
  slice(others, indexOfEndOfBallots(others) + 1, Len(others))

candidateLines(others) ==
  slice(others, indexOfEndOfBallots(others) + 1, Len(others) - 1)

candidates(others) ==
  LET names == candidateLines(others)
  IN [k \in 1..Len(names) |-> [name |-> names[k], number |-> k]]

isTie(ranking) ==
  LET parts == split(ranking, EQ)
  IN Len(parts) = 2 /\ AllDigits(parts[1]) /\ AllDigits(parts[2])

\* Variant: an empty token counts as a skip too.
isSkip_blank(ranking) == ranking = <<DASH>> \/ ranking = <<>>

isSkip(ranking) == ranking = <<DASH>>

processRankings(candidateRankings) ==
  [i \in 1..Len(candidateRankings) |->
     LET ranking == candidateRankings[i]
     IN IF isTie(ranking)
          THEN LET parts == split(ranking, EQ)
               IN [rank |-> i, candidates |-> [k \in 1..Len(parts) |-> Number(parts[k])]]
        ELSE IF isSkip(ranking)
          THEN [rank |-> i, candidates |-> <<>>]
        ELSE [rank |-> i, candidates |-> <<Number(ranking)>>]]

ballot(line) ==
  LET pieces == split(line, SP)
      tokens == [i \in 1..Len(pieces) |-> trim(pieces[i])]
      candidateRankings == Tail(tokens)
  IN [weight |-> Number(tokens[1]),
      rankings |-> processRankings(
                     slice(candidateRankings, 0, Len(candidateRankings) - 1))]

\* firstLine is undefined, and firstLine.split throws, when no line is left.
parseThrows(bltText) == cleanedLines(bltText) = <<>>

parse(bltText) ==
  LET lines == cleanedLines(bltText)
      header == split(lines[1], SP)
      others == theOtherLines(lines)
      fields == {"withdrawnCandidates", "numberOfCandidates", "ballots", "candidates"}
                  \cup (IF Len(header) >= 2 THEN {"numberOfSeats"} ELSE {})
                  \cup (IF Len(others) >= 1 THEN {"electionName"} ELSE {})
  IN [f \in fields |->
        CASE f = "withdrawnCandidates" -> withdrawnCandidates(Tail(lines))
          [] f = "numberOfCandidates" -> Number(header[1])
          [] f = "numberOfSeats" -> Number(header[2])
          [] f = "electionName" -> others[Len(others)]
          [] f = "ballots" ->
               LET block == ballotLines(others)
               IN [j \in 1..Len(block) |-> ballot(block[j])]
          [] f = "candidates" -> candidates(others)]

-----------------------------------------------------------------------------
(* The page: textarea, results pane, error pane, and the input handler *)

\* JSON.stringify of a string: the control characters are escaped (a quote
\* never reaches a string of the result, a backslash is not in the alphabet).
RECURSIVE JSONstring(_)
JSONstring(s) ==
  IF s = <<>> THEN <<>>
  ELSE (CASE Head(s) = CR -> <<"\\", "r">>
          [] Head(s) = TAB -> <<"\\", "t">>
          [] Head(s) = LF -> <<"\\", "n">>
          [] OTHER -> <<Head(s)>>) \o JSONstring(Tail(s))

\* JSON.stringify of a number: NaN is written null.
JSONnumber(n) == IF n = NaN THEN "null" ELSE n

\* JSON.stringify(result, null, 2): the properties in the order of the object
\* literal, those whose value is undefined left out.
JSONstringify(r) ==
  [f \in DOMAIN r |->
     CASE f = "withdrawnCandidates" -> [i \in 1..Len(r[f]) |-> JSONnumber(r[f][i])]
       [] f = "numberOfCandidates" -> JSONnumber(r[f])
       [] f = "numberOfSeats" -> JSONnumber(r[f])
       [] f = "electionName" -> JSONstring(r[f])
       [] f = "ballots" ->
            [j \in 1..Len(r[f]) |->
               [weight |-> JSONnumber(r[f][j].weight),
                rankings |->
                  [i \in 1..Len(r[f][j].rankings) |->
                     [rank |-> r[f][j].rankings[i].rank,
                      candidates |->
                        [k \in 1..Len(r[f][j].rankings[i].candidates) |->
                           JSONnumber(r[f][j].rankings[i].candidates[k])]]]]]
       [] f = "candidates" ->
            [k \in 1..Len(r[f]) |->
               [name |-> JSONstring(r[f][k].name), number |-> r[f][k].number]]]

ErrorMessage == "Oops! There was an error. Make sure your BLT text is properly formatted. If it is...sry ????"

\* Variant: the loop stops one child early.
clearElement_keepFirst(children) ==
  IF children = <<>> THEN <<>> ELSE <<Head(children)>>

\* clearElement(elem): the children left when the loop ends.
clearElement(children) == <<>>

\* The completion of the handler's call of parse.
NoCall == [kind |-> "none", val |-> <<>>]
Threw == [kind |-> "throw", val |-> <<>>]
Returned(r) == [kind |-> "return", val |-> r]

\* onInput, run on the textarea value v.
onInput(v) ==
  LET clearedError == clearElement(error)
      clearedResults == clearElement(results)
  IN IF Len(trim(v)) = 0
       THEN /\ error' = clearedError
            /\ results' = clearedResults
            /\ result' = NoCall
     ELSE IF parseThrows(v)
       THEN /\ error' = <<ErrorMessage>>
            /\ results' = clearedResults
            /\ result' = Threw
     ELSE LET r == parse(v)
          IN /\ error' = clearedError
             /\ results' = Append(clearedResults,
                                  [tag |-> "pre", textContent |-> JSONstringify(r)])
             /\ result' = Returned(r)

\* onInput(); at line 201, when the script is loaded.
InitialCall ==
  /\ pc = "load"
  /\ onInput(value)
  /\ pc' = "idle"
  /\ UNCHANGED value

\* An "input" event: the textarea now holds v, and the listener runs.
InputEvent(v) ==
  /\ pc = "idle"
  /\ value' = v
  /\ onInput(v)
  /\ UNCHANGED pc

-----------------------------------------------------------------------------
(* Inputs *)

MaxPageLines == 3
MaxBodyLines == 5
MaxSecondLen == 5
MaxTokens == 4

RECURSIVE Join(_, _)
Join(lines, eol) ==
  IF lines = <<>> THEN <<>>
  ELSE IF Len(lines) = 1 THEN lines[1]
  ELSE lines[1] \o eol \o Join(Tail(lines), eol)

\* tokens[1] seps[1] tokens[2] ... tokens[n]
RECURSIVE JoinTokens(_, _)
JoinTokens(tokens, seps) ==
  IF Len(tokens) = 1 THEN tokens[1]
  ELSE tokens[1] \o seps[1] \o JoinTokens(Tail(tokens), Tail(seps))

EOLs == {<<LF>>, <<CR, LF>>}

MarkerLine == <<"0">>
BallotLine == <<"1", SP, "1", SP, "0">>
NameA == <<QUOTE, "A", QUOTE>>
NameB == <<QUOTE, "B", QUOTE, SP, HASH, SP, "c">>
NameC == <<QUOTE, "C", QUOTE>>
CommentLine == <<HASH, SP, "x">>
WithdrawLine == <<DASH, "2">>
Header1 == <<"1", SP, "1">>
Header2 == <<"2", SP, "1">>
TitleLine == <<QUOTE, "T", QUOTE>>

\* The lines a textarea of the page is made of: at most MaxPageLines of them.
PageLines == {<<SP>>, CommentLine, Header1, MarkerLine, NameA}

PageTexts ==
  UNION {{Join(ls, <<LF>>) : ls \in [1..k -> PageLines]} : k \in 0..MaxPageLines}

\* The lines that follow a header: at most MaxBodyLines of them.
SegmentLines == {MarkerLine, BallotLine, NameA, NameB, CommentLine, WithdrawLine}

\* The characters of the line after the header: at most MaxSecondLen of them.
SecondLineChars == {DASH, "0", "1", SP}

\* The tokens of a ballot line, at most MaxTokens of them, and what separates
\* two of them.
Tokens == {<<"0">>, <<"1">>, <<DASH>>, <<"1", EQ, "2">>, <<"1", EQ, "2", EQ, "1">>}
Separators == {<<SP>>, <<SP, SP>>, <<SP, TAB>>}

-----------------------------------------------------------------------------
(* Specifications *)

\* The page before the script's first call of onInput.
Loaded ==
  /\ results = <<>>
  /\ error = <<>>
  /\ result = NoCall
  /\ pc = "load"

Init == value \in PageTexts /\ Loaded

Next == InitialCall \/ \E v \in PageTexts : InputEvent(v)

Spec == Init /\ [][Next]_vars

\* parse on one text: the page is loaded with the text in the textarea.
InitSegment ==
  /\ \E h \in {Header1, Header2}, eol \in EOLs, k \in 0..MaxBodyLines :
       \E body \in [1..k -> SegmentLines] : value = Join(<<h>> \o body, eol)
  /\ Loaded

SpecSegment == InitSegment /\ [][InitialCall]_vars

InitWithdrawal ==
  /\ \E k \in 0..MaxSecondLen,
        rest \in {<<>>, <<BallotLine, MarkerLine, NameA, NameB, TitleLine>>} :
       \E second \in [1..k -> SecondLineChars] :
         value = Join(<<Header2, second>> \o rest, <<LF>>)
  /\ Loaded

SpecWithdrawal == InitWithdrawal /\ [][InitialCall]_vars

InitBallot ==
  /\ \E n \in 1..MaxTokens :
       \E tokens \in [1..n -> Tokens], seps \in [1..(n - 1) -> Separators] :
         value = Join(<<Header2, JoinTokens(tokens, seps), MarkerLine, NameA, NameC,
                        TitleLine>>, <<LF>>)
  /\ Loaded

SpecBallot == InitBallot /\ [][InitialCall]_vars

-----------------------------------------------------------------------------
(* Properties *)

\* parse was called by the handler and returned.
ParseReturned == pc = "idle" /\ result.kind = "return"

NormalizedLines == cleanedLines(value)

\* The normalized lines after the header and the optional withdrawal line.
Remaining == theOtherLines(NormalizedLines)

MarkerPositions(ls) == {i \in 1..Len(ls) : ls[i] = <<"0">>}

FirstMarker(ls) == CHOOSE i \in MarkerPositions(ls) : \A j \in MarkerPositions(ls) : i <= j

HasChar(s, c) == \E i \in 1..Len(s) : s[i] = c

\* The tokens of a line when any run of white space separates them.
WhitespaceTokens(line) ==
  SelectSeq(split([i \in 1..Len(line) |-> IF line[i] \in WhiteSpace THEN SP ELSE line[i]], SP),
            LAMBDA t : Len(t) > 0)

\* The lines of the ballot block: those before the first marker.
BallotBlock ==
  IF MarkerPositions(Remaining) = {} THEN <<>>
  ELSE SubSeq(Remaining, 1, FirstMarker(Remaining) - 1)

\* C1: when the lines after the header and the optional withdrawal line hold
\* a "0" line, the ballots come from exactly the lines before the first such
\* line, in order; the candidate names are exactly the lines after it except
\* the final line, numbered 1..N by position; electionName is the final line.
C1_Segmentation ==
  (ParseReturned /\ MarkerPositions(Remaining) # {}) =>
    LET m == FirstMarker(Remaining)
        n == Len(Remaining)
        names == IF n - 1 >= m + 1 THEN SubSeq(Remaining, m + 1, n - 1) ELSE <<>>
    IN /\ Len(result.val.ballots) = m - 1
       /\ \A j \in 1..(m - 1) : result.val.ballots[j] = ballot(Remaining[j])
       /\ DOMAIN result.val.candidates = 1..Len(names)
       /\ \A k \in 1..Len(names) :
            result.val.candidates[k] = [name |-> names[k], number |-> k]
       /\ result.val.electionName = Remaining[n]

\* A parse with a ballot before the first marker, a second marker after it,
\* and names after the first marker.
C1_Witness ==
  /\ ParseReturned
  /\ Cardinality(MarkerPositions(Remaining)) >= 2
  /\ FirstMarker(Remaining) > 1
  /\ Len(result.val.ballots) = FirstMarker(Remaining) - 1
  /\ Len(result.val.candidates) >= 2

\* C2: when no normalized line is exactly "0", parse fails; it returns no
\* result record.
C2_MissingMarkerFails ==
  (pc = "idle" /\ result.kind # "none"
     /\ \A i \in 1..Len(NormalizedLines) : NormalizedLines[i] # <<"0">>)
    => result.kind = "throw"

\* C3: every ballot has one ranking per white-space-separated ranking token
\* of its line (weight and terminator excluded), however many spaces separate
\* the tokens, and its i-th ranking has rank i.
C3_OneRankingPerToken ==
  ParseReturned =>
    LET block == BallotBlock
    IN /\ Len(result.val.ballots) = Len(block)
       /\ \A j \in 1..Len(block) :
         LET rankings == result.val.ballots[j].rankings
         IN /\ Len(rankings) = Max(Len(WhitespaceTokens(block[j])) - 2, 0)
            /\ \A i \in 1..Len(rankings) : rankings[i].rank = i

\* A line is one or more space-separated negative integers and nothing else.
IsNegativeIntegerList(line) ==
  LET toks == SelectSeq(split(line, SP), LAMBDA t : Len(t) > 0)
  IN /\ Len(toks) >= 1
     /\ \A i \in 1..Len(line) : line[i] \in Digits \cup {DASH, SP}
     /\ \A i \in 1..Len(toks) : toks[i][1] = DASH /\ AllDigits(Tail(toks[i]))

NegativeIntegerListNumbers(line) ==
  LET toks == SelectSeq(split(line, SP), LAMBDA t : Len(t) > 0)
  IN [i \in 1..Len(toks) |-> DecimalValue(Tail(toks[i]))]

\* C4: a line of space-separated negative integers right after the header is
\* consumed and withdrawnCandidates lists its numbers in order; any other line
\* leaves withdrawnCandidates empty and stays the first line that ballot
\* segmentation sees.
C4_WithdrawalLookahead ==
  ParseReturned =>
    LET after == Tail(NormalizedLines)
    IN IF Len(after) > 0 /\ IsNegativeIntegerList(after[1])
         THEN /\ result.val.withdrawnCandidates = NegativeIntegerListNumbers(after[1])
              /\ Remaining = Tail(after)
         ELSE /\ result.val.withdrawnCandidates = <<>>
              /\ Remaining = after

\* C5: every element of withdrawnCandidates is a positive integer, for every
\* line the withdrawal pattern accepts.
C5_WithdrawnPositive ==
  ParseReturned =>
    \A i \in 1..Len(result.val.withdrawnCandidates) :
      /\ result.val.withdrawnCandidates[i] # NaN
      /\ result.val.withdrawnCandidates[i] > 0

\* The candidate count the first line declares.
DeclaredCount == Number(WhitespaceTokens(NormalizedLines[1])[1])

\* The number of name lines between the first marker and the title line
\* equals the declared count.
ValidInput ==
  /\ MarkerPositions(Remaining) # {}
  /\ Len(Remaining) > FirstMarker(Remaining)
  /\ Len(Remaining) - FirstMarker(Remaining) - 1 = DeclaredCount

\* C6: for a valid input, candidates has exactly numberOfCandidates entries,
\* keyed 1..numberOfCandidates, the entry at k having number k and the k-th
\* name line as name.
C6_CandidateCount ==
  (ParseReturned /\ ValidInput) =>
    /\ DOMAIN result.val.candidates = 1..result.val.numberOfCandidates
    /\ \A k \in DOMAIN result.val.candidates :
         result.val.candidates[k] =
           [name |-> Remaining[FirstMarker(Remaining) + k], number |-> k]

\* A valid input with two candidates and a ballot.
C6_Witness ==
  /\ ParseReturned
  /\ ValidInput
  /\ result.val.numberOfCandidates = 2
  /\ Len(result.val.candidates) = 2
  /\ Len(result.val.ballots) >= 1

\* C7: no output string (electionName, a candidate's name) holds a '#' or a
\* straight double quote, whatever the line-break convention.
C7_NoCommentOrQuote ==
  ParseReturned =>
    /\ "electionName" \in DOMAIN result.val =>
         ~HasChar(result.val.electionName, HASH) /\ ~HasChar(result.val.electionName, QUOTE)
    /\ \A k \in DOMAIN result.val.candidates :
         /\ ~HasChar(result.val.candidates[k].name, HASH)
         /\ ~HasChar(result.val.candidates[k].name, QUOTE)

\* The tokens of a ballot line as parse cuts them: at every single space,
\* each piece trimmed.
BallotTokens(line) ==
  LET pieces == split(line, SP)
  IN [i \in 1..Len(pieces) |-> trim(pieces[i])]

\* A token made of parts joined by "=".
IsEqJoined(tok) == HasChar(tok, EQ)

\* C8: a ranking's candidates are empty only for the token "-", two or more
\* only for an "="-joined token, and exactly one for every other token.
C8_CandidatesShape ==
  ParseReturned =>
    LET block == BallotBlock
    IN /\ Len(result.val.ballots) = Len(block)
       /\ \A j \in 1..Len(block) :
         LET toks == BallotTokens(block[j])
             rankings == result.val.ballots[j].rankings
         IN \A i \in 1..Len(rankings) :
              /\ i + 1 <= Len(toks)
              /\ Len(rankings[i].candidates) = 0 => toks[i + 1] = <<DASH>>
              /\ Len(rankings[i].candidates) >= 2 => IsEqJoined(toks[i + 1])
              /\ (toks[i + 1] # <<DASH>> /\ ~IsEqJoined(toks[i + 1]))
                   => Len(rankings[i].candidates) = 1

\* A ballot with a skip, a tie and a blank token among its rankings.
C8_Witness ==
  /\ ParseReturned
  /\ \E j \in 1..Len(result.val.ballots) :
       LET rankings == result.val.ballots[j].rankings
       IN /\ \E i \in 1..Len(rankings) : Len(rankings[i].candidates) = 0
          /\ \E i \in 1..Len(rankings) : Len(rankings[i].candidates) = 2
  /\ \E j \in 1..Len(BallotBlock) :
       LET toks == BallotTokens(BallotBlock[j])
       IN \E i \in 1..Len(toks) : toks[i] = <<>>

\* C9: parse fails when a ballot line's final token is not "0"; a ballot is
\* returned only for lines that end in the terminator.
C9_TerminatorRequired ==
  (pc = "idle" /\ result.kind # "none"
     /\ \E j \in 1..Len(BallotBlock) :
          LET toks == WhitespaceTokens(BallotBlock[j])
          IN toks[Len(toks)] # <<"0">>)
    => result.kind = "throw"

\* C10: after every run of onInput the panes are never both non-empty; both
\* are empty for a textarea of white space; the results pane holds exactly the
\* rendering of the parse of the current value when parse returns; the error
\* pane alone is filled when parse throws.
C10_PanesFollowInput ==
  pc = "idle" =>
    /\ ~(results # <<>> /\ error # <<>>)
    /\ Len(trim(value)) = 0 => (results = <<>> /\ error = <<>>)
    /\ (Len(trim(value)) > 0 /\ ~parseThrows(value)) =>
         /\ results = <<[tag |-> "pre", textContent |-> JSONstringify(parse(value))]>>
         /\ error = <<>>
    /\ (Len(trim(value)) > 0 /\ parseThrows(value)) =>
         /\ results = <<>>
         /\ error = <<ErrorMessage>>

\* The handler ran on a text that is not blank and on which parse throws.
C10_Witness ==
  /\ pc = "idle"
  /\ Len(trim(value)) > 0
  /\ result.kind = "throw"
  /\ error = <<ErrorMessage>>
  /\ results = <<>>

====
